---- MODULE Spec2Model ----
(***************************************************************************)
(* Model of src/app.py, the Streamlit "mirror" chat front-end.             *)
(*                                                                         *)
(* Streamlit re-executes the whole script once for every widget            *)
(* interaction.  One script run is modelled as three steps: the UI event   *)
(* together with the prologue of the run (lines 54-107), the user input    *)
(* handler (lines 150-163) and the soliloquy handler (lines 168-180).  An  *)
(* uncaught exception in a handler ends the run; what the run had written  *)
(* to st.session_state and to the log file stays.                          *)
(*                                                                         *)
(* Text is a sequence of characters.  A Korean syllable is written as one  *)
(* ASCII-named character ("mul" for the syllable of water); every white    *)
(* space character of a literal is a character of its own, so that         *)
(* str.strip and str.split act as in Python.  Slider values are scaled by  *)
(* 100 (temperature 0.9 is 90).                                            *)
(*                                                                         *)
(* Whether pyttsx3.init() succeeds is a property of the platform, chosen   *)
(* in the initial state; every run builds its Speaker from it.  The delay  *)
(* of time.sleep(2) is not modelled.  A text field keeps its value from    *)
(* run to run, so every run handles the text the field holds.              *)
(***************************************************************************)
EXTENDS Integers, Sequences, FiniteSets, TLC

VARIABLES
    messages,           \* st.session_state["messages"]
    monologue_running,  \* st.session_state["monologue_running"]
    logger,             \* number of log files opened by this session (0: none yet)
    log,                \* content accepted by the log file: one entry per write
    log_errors,         \* exceptions swallowed by write_log so far
    max_tokens, temperature, top_k, top_p, repeat_penalty,   \* sidebar widgets
    tts_enabled, mirror_mode,                                \* sidebar checkboxes
    user_input,         \* value of the text field
    event,              \* the widget interaction that triggered the current run
    engine,             \* TRUE iff pyttsx3.init() succeeds on this platform
    speaker_ok,         \* speaker.ok of the Speaker built by the current run
    threads,            \* texts of the playback threads still alive
    request,            \* <<>> or <<r>>, r the last request handed to the API
    api_calls,          \* number of generate_content calls made
    raised,             \* exception that ended the last run, "none" if none
    pc,                 \* "idle", "input" or "mono": position of the script run
    runs,               \* interactions handled since the initial state
    m_subject, m_original, m_result, m_done   \* a direct call of mirror_response

vars == <<messages, monologue_running, logger, log, log_errors, max_tokens,
          temperature, top_k, top_p, repeat_penalty, tts_enabled, mirror_mode,
          user_input, event, engine, speaker_ok, threads, request, api_calls, raised,
          pc, runs, m_subject, m_original, m_result, m_done>>

mvars == <<m_subject, m_original, m_result, m_done>>

-----------------------------------------------------------------------------
(* Bounds *)

MaxRuns == 2
MaxSubjLen == 2
MaxOrigLen == 2
MaxLogErrors == 1

-----------------------------------------------------------------------------
(* Text *)

RECURSIVE StringsUpTo(_, _)
StringsUpTo(alphabet, n) ==
    IF n = 0 THEN {<<>>}
    ELSE LET shorter == StringsUpTo(alphabet, n - 1)
         IN  shorter \cup {Append(s, c) : s \in shorter, c \in alphabet}

\* the characters str.strip() and str.split() treat as white space
WS == {" ", "\n"}

RECURSIVE lstrip(_)
lstrip(s) ==
    IF s = <<>> THEN s
    ELSE IF Head(s) \in WS THEN lstrip(Tail(s)) ELSE s

RECURSIVE rstrip(_)
rstrip(s) ==
    IF s = <<>> THEN s
    ELSE IF s[Len(s)] \in WS THEN rstrip(SubSeq(s, 1, Len(s) - 1)) ELSE s

strip(s) == rstrip(lstrip(s))

\* length of the leading run of non-white-space characters
RECURSIVE WordLen(_)
WordLen(s) ==
    IF s = <<>> \/ Head(s) \in WS THEN 0 ELSE 1 + WordLen(Tail(s))

\* str.split() without argument: the maximal runs of non-white-space
RECURSIVE split(_)
split(s) ==
    LET t == lstrip(s)
        n == WordLen(t)
    IN  IF t = <<>> THEN <<>>
        ELSE <<SubSeq(t, 1, n)>> \o split(SubSeq(t, n + 1, Len(t)))

-----------------------------------------------------------------------------
(* 6. mirror conversion *)

mul == <<"mul">>
bul == <<"bul">>
baram == <<"ba", "ram">>
heulk == <<"heulk">>
honjatmal == <<"hon", "jat", "mal">>

mirror_keys == {mul, bul, baram, heulk, honjatmal}

mirror_hierarchy ==
    [k \in mirror_keys |->
        CASE k = mul       -> <<"pyeonghwawa", " ", "saengmyeongui", " ", "mun">>
          [] k = bul       -> <<"bitgwa", " ", "pyeonghwaui", " ", "annaeja">>
          [] k = baram     -> <<"jayuwa", " ", "heureumui", " ", "sumgyeol">>
          [] k = heulk     -> <<"pumeumgwa", " ", "ppuriui", " ", "ansik">>
          [] k = honjatmal -> <<"naemyeoneul", " ", "bichuneun", " ", "geoul",
                                " ", "gateun", " ", "soksagim">>]

\* "{subject}은/는 스스로 주장하지 않지만 모든 것을 담아낸다."
contrast(subject) ==
    subject \o <<"eun/neun", " ", "seuseuro", " ", "jujanghaji", " ", "anchiman",
                 " ", "modeun", " ", "geoseul", " ", "damanaenda.">>

\* mirror_response reading the conclusion under a key the nodes do not have
mirror_response_no_conclusion(subject, original) ==
    IF subject \notin DOMAIN mirror_hierarchy
    THEN <<"geoulsang:", " ", "(juje", " ", "'">> \o subject
             \o <<"'", " ", "jeongui", " ", "eopseum)", "\n", "\n">> \o original
    ELSE <<"geoulsang", " ", "(">> \o subject \o <<"):", "\n">>
             \o <<"-", " ", "wonmun:", " ">> \o strip(original) \o <<"\n">>
             \o <<"-", " ", "daejo:", " ">> \o contrast(subject) \o <<"\n">>
             \o <<"-", " ", "jonghap:", " ">>

mirror_response(subject, original) ==
    IF subject \notin DOMAIN mirror_hierarchy
    THEN <<"geoulsang:", " ", "(juje", " ", "'">> \o subject
             \o <<"'", " ", "jeongui", " ", "eopseum)", "\n", "\n">> \o original
    ELSE <<"geoulsang", " ", "(">> \o subject \o <<"):", "\n">>
             \o <<"-", " ", "wonmun:", " ">> \o strip(original) \o <<"\n">>
             \o <<"-", " ", "daejo:", " ">> \o contrast(subject) \o <<"\n">>
             \o <<"-", " ", "jonghap:", " ">> \o mirror_hierarchy[subject]

-----------------------------------------------------------------------------
(* 5. option widgets: the values the model lets the user choose *)

max_tokens_min == 10
max_tokens_max == 8192
max_tokens_default == 5012
temperature_min == 0
temperature_max == 200
temperature_default == 90
top_k_min == 0
top_k_max == 200
top_k_default == 40
top_p_min == 0
top_p_max == 100
top_p_default == 90
repeat_penalty_min == 50
repeat_penalty_max == 200
repeat_penalty_default == 105

MaxTokensValues == {max_tokens_min, max_tokens_default, max_tokens_max}
TemperatureValues == {temperature_min, temperature_default, temperature_max}
TopKValues == {top_k_min, top_k_default, top_k_max}
TopPValues == {top_p_min, top_p_default, top_p_max}
RepeatPenaltyValues == {repeat_penalty_min, repeat_penalty_default, repeat_penalty_max}

\* What the user can type into the text field: nothing, white space only, a
\* key of the mirror table, a key behind white space and before more words,
\* a word that is no key.
TextInputs == {<<>>, <<" ">>, mul, <<" ", "mul", " ", "x">>, <<"x">>}

\* response.text of a response that has text: white space only, or a word
\* with white space around it
ResponseTexts == {<<" ">>, <<" ", "y", "\n">>}

\* outcome of the two file operations of write_log
IoOutcomes == {"ok", "write_fails", "flush_fails"}

\* the outcomes the model lets a write_log call have after n failed calls
IoAfter(n) == IF n < MaxLogErrors THEN IoOutcomes ELSE {"ok"}

-----------------------------------------------------------------------------
(* 2. Speaker *)

\* speak that ends the playback in progress before it starts the new one
speak_one_voice(ok, text, alive) ==
    IF ok /\ strip(text) # <<>> THEN <<text>> ELSE alive

\* speak without the text.strip() test
speak_blank(ok, text, alive) ==
    IF ok THEN Append(alive, text) ELSE alive

\* Speaker.speak: the playback threads alive after the call
speak(ok, text, alive) ==
    IF ok /\ strip(text) # <<>> THEN Append(alive, text) ELSE alive

-----------------------------------------------------------------------------
(* 3. log *)

\* write_log without the try/except
write_log_raising(file, text, io) ==
    [file   |-> IF io = "write_fails" THEN file ELSE Append(file, text \o <<"\n">>),
     raised |-> IF io = "ok" THEN "none" ELSE "OSError"]

\* write_log: the content of the file after the call and what the call raises.
\* write() failing leaves the file as it was; flush() failing leaves the text
\* in the file object's buffer, behind everything written before it.
write_log(file, text, io) ==
    [file   |-> IF io = "write_fails" THEN file ELSE Append(file, text \o <<"\n">>),
     raised |-> "none"]

\* lines 66-68 without the test for an existing handle
open_logger_every_run(opened) == opened + 1

\* lines 66-68: the number of log files the session has opened after them; a
\* file is opened only if st.session_state holds no "logger"
open_logger(opened) == IF opened = 0 THEN 1 ELSE opened

-----------------------------------------------------------------------------
(* 5. buttons, lines 104-107: the click that triggered the run, if any *)

\* the flag taken from the start button's value in the run
buttons_momentary(running, e) == e = "start"

\* the two buttons with their assignments exchanged
buttons_exchanged(running, e) ==
    LET after_start == IF e = "start" THEN FALSE ELSE running
    IN  IF e = "stop" THEN TRUE ELSE after_start

buttons(running, e) ==
    LET after_start == IF e = "start" THEN TRUE ELSE running
    IN  IF e = "stop" THEN FALSE ELSE after_start

-----------------------------------------------------------------------------
(* 7. Gemini *)

\* generate_content that is also handed top_k
generate_content_top_k(prompt) ==
    [prompt            |-> prompt,
     max_output_tokens |-> max_tokens,
     temperature       |-> temperature,
     top_p             |-> top_p,
     top_k             |-> top_k]

\* generate_content with the option values the widgets had when the session
\* began
generate_content_snapshot(prompt) ==
    [prompt            |-> prompt,
     max_output_tokens |-> max_tokens_default,
     temperature       |-> temperature_default,
     top_p             |-> top_p_default]

\* the arguments of model.generate_content
generate_content(prompt) ==
    [prompt            |-> prompt,
     max_output_tokens |-> max_tokens,
     temperature       |-> temperature,
     top_p             |-> top_p]

\* return response.text.strip()
ask_gemini(response_text) == strip(response_text)

-----------------------------------------------------------------------------
(* 8. user input, 9. soliloquy: the pieces of the handlers *)

\* list.insert(0, item)
insert_first(list, item) == <<item>> \o list

\* list.append
append(list, item) == Append(list, item)

\* the user message appended before the generation call
appended_before_call(list, input) == Append(list, <<"user", input>>)

\* the history when ask_gemini is called at line 153: the appends of lines
\* 158-159 come after the call, so nothing of the turn is in it
history_at_call(list, input) == list

\* lines 154-156 with the whole trimmed input as the subject
user_answer_whole_input(mirror, input, answer) ==
    IF mirror THEN mirror_response(strip(input), answer) ELSE answer

\* lines 154-156
user_answer(mirror, input, answer) ==
    IF mirror THEN mirror_response(split(strip(input))[1], answer) ELSE answer

\* line 155 raises IndexError when the input has no token
subject_missing(mirror, input) == mirror /\ split(strip(input)) = <<>>

\* the record without the assistant line
user_record_no_answer(input, answer) == <<"USER:", " ">> \o input

\* f"USER: {user_input}\nASSISTANT: {answer}"
user_record(input, answer) ==
    <<"USER:", " ">> \o input \o <<"\n", "ASSISTANT:", " ">> \o answer

\* the hard-coded soliloquy prompt of line 171
prompt == <<"soliloquy-prompt">>

\* lines 173-174 without the mirror_mode test
mono_answer_always_mirror(mirror, answer) == mirror_response(honjatmal, answer)

\* lines 173-174
mono_answer(mirror, answer) ==
    IF mirror THEN mirror_response(honjatmal, answer) ELSE answer

\* f"ASSISTANT(MONO): {answer}"
mono_record(answer) == <<"ASSISTANT(MONO):", " ">> \o answer

\* line 168 without the test of the flag
mono_guard_always(running) == TRUE

\* line 168
mono_guard(running) == running

-----------------------------------------------------------------------------
(* The session *)

InitSession ==
    /\ messages = <<>>
    /\ monologue_running = FALSE
    /\ logger = 0
    /\ log = <<>>
    /\ log_errors = 0
    /\ max_tokens = max_tokens_default
    /\ temperature = temperature_default
    /\ top_k = top_k_default
    /\ top_p = top_p_default
    /\ repeat_penalty = repeat_penalty_default
    /\ tts_enabled = FALSE
    /\ mirror_mode = FALSE
    /\ user_input = <<>>
    /\ event = "none"
    /\ engine \in BOOLEAN
    /\ speaker_ok = FALSE
    /\ threads = <<>>
    /\ request = <<>>
    /\ api_calls = 0
    /\ raised = "none"
    /\ pc = "idle"
    /\ runs = 0

Init ==
    /\ InitSession
    /\ m_subject = <<>>
    /\ m_original = <<>>
    /\ m_result = <<>>
    /\ m_done = FALSE

\* Lines 54-107 of a run triggered by the interaction e: a Speaker is built,
\* the log file is opened if the session has none, the buttons are read.
Prologue(e) ==
    /\ pc = "idle"
    /\ event' = e
    /\ speaker_ok' = engine
    /\ logger' = open_logger(logger)
    /\ monologue_running' = buttons(monologue_running, e)
    /\ raised' = "none"
    /\ pc' = "input"
    /\ UNCHANGED <<messages, log, log_errors, engine, threads, request,
                   api_calls, mvars>>

\* the browser opens the page: the first run of the session
PageLoad ==
    /\ logger = 0
    /\ Prologue("load")
    /\ UNCHANGED <<runs, max_tokens, temperature, top_k, top_p, repeat_penalty,
                   tts_enabled, mirror_mode, user_input>>

SubmitText ==
    /\ logger # 0
    /\ runs < MaxRuns
    /\ runs' = runs + 1
    /\ \E t \in TextInputs \ {user_input} : user_input' = t
    /\ Prologue("text")
    /\ UNCHANGED <<max_tokens, temperature, top_k, top_p, repeat_penalty,
                   tts_enabled, mirror_mode>>

SetMaxTokens ==
    /\ logger # 0
    /\ runs < MaxRuns
    /\ runs' = runs + 1
    /\ \E v \in MaxTokensValues \ {max_tokens} : max_tokens' = v
    /\ Prologue("max_tokens")
    /\ UNCHANGED <<temperature, top_k, top_p, repeat_penalty,
                   tts_enabled, mirror_mode, user_input>>

SetTemperature ==
    /\ logger # 0
    /\ runs < MaxRuns
    /\ runs' = runs + 1
    /\ \E v \in TemperatureValues \ {temperature} : temperature' = v
    /\ Prologue("temperature")
    /\ UNCHANGED <<max_tokens, top_k, top_p, repeat_penalty,
                   tts_enabled, mirror_mode, user_input>>

SetTopK ==
    /\ logger # 0
    /\ runs < MaxRuns
    /\ runs' = runs + 1
    /\ \E v \in TopKValues \ {top_k} : top_k' = v
    /\ Prologue("top_k")
    /\ UNCHANGED <<max_tokens, temperature, top_p, repeat_penalty,
                   tts_enabled, mirror_mode, user_input>>

SetTopP ==
    /\ logger # 0
    /\ runs < MaxRuns
    /\ runs' = runs + 1
    /\ \E v \in TopPValues \ {top_p} : top_p' = v
    /\ Prologue("top_p")
    /\ UNCHANGED <<max_tokens, temperature, top_k, repeat_penalty,
                   tts_enabled, mirror_mode, user_input>>

SetRepeatPenalty ==
    /\ logger # 0
    /\ runs < MaxRuns
    /\ runs' = runs + 1
    /\ \E v \in RepeatPenaltyValues \ {repeat_penalty} : repeat_penalty' = v
    /\ Prologue("repetition_penalty")
    /\ UNCHANGED <<max_tokens, temperature, top_k, top_p,
                   tts_enabled, mirror_mode, user_input>>

ToggleTts ==
    /\ logger # 0
    /\ runs < MaxRuns
    /\ runs' = runs + 1
    /\ tts_enabled' = ~tts_enabled
    /\ Prologue("tts")
    /\ UNCHANGED <<max_tokens, temperature, top_k, top_p, repeat_penalty,
                   mirror_mode, user_input>>

ToggleMirror ==
    /\ logger # 0
    /\ runs < MaxRuns
    /\ runs' = runs + 1
    /\ mirror_mode' = ~mirror_mode
    /\ Prologue("mirror")
    /\ UNCHANGED <<max_tokens, temperature, top_k, top_p, repeat_penalty,
                   tts_enabled, user_input>>

PressStart ==
    /\ logger # 0
    /\ runs < MaxRuns
    /\ runs' = runs + 1
    /\ Prologue("start")
    /\ UNCHANGED <<max_tokens, temperature, top_k, top_p, repeat_penalty,
                   tts_enabled, mirror_mode, user_input>>

PressStop ==
    /\ logger # 0
    /\ runs < MaxRuns
    /\ runs' = runs + 1
    /\ Prologue("stop")
    /\ UNCHANGED <<max_tokens, temperature, top_k, top_p, repeat_penalty,
                   tts_enabled, mirror_mode, user_input>>

widgets == <<max_tokens, temperature, top_k, top_p, repeat_penalty,
             tts_enabled, mirror_mode, user_input>>

\* what no handler assigns
session == <<monologue_running, logger, event, engine, speaker_ok, runs>>

\* line 152 with a falsy user_input: the handler is skipped
UserInputSkip ==
    /\ pc = "input"
    /\ user_input = <<>>
    /\ pc' = "mono"
    /\ UNCHANGED <<messages, log, log_errors, threads, request, api_calls,
                   raised, widgets, session, mvars>>

\* line 153: the generation call fails and the exception ends the run
UserInputApiError ==
    /\ pc = "input"
    /\ user_input # <<>>
    /\ request' = <<generate_content(user_input)>>
    /\ api_calls' = api_calls + 1
    /\ raised' = "ApiError"
    /\ pc' = "idle"
    /\ messages' = history_at_call(messages, user_input)
    /\ UNCHANGED <<log, log_errors, threads, widgets, session, mvars>>

\* line 155: user_input.strip().split() is empty and [0] raises
UserInputIndexError ==
    /\ pc = "input"
    /\ user_input # <<>>
    /\ subject_missing(mirror_mode, user_input)
    /\ request' = <<generate_content(user_input)>>
    /\ api_calls' = api_calls + 1
    /\ raised' = "IndexError"
    /\ pc' = "idle"
    /\ UNCHANGED <<messages, log, log_errors, threads, widgets, session, mvars>>

\* lines 152-163 with a generation call that returns text
UserInputOk ==
    /\ pc = "input"
    /\ user_input # <<>>
    /\ ~subject_missing(mirror_mode, user_input)
    /\ \E text \in ResponseTexts, io \in IoAfter(log_errors) :
         LET answer == user_answer(mirror_mode, user_input, ask_gemini(text))
             w == write_log(log, user_record(user_input, answer), io)
         IN  /\ request' = <<generate_content(user_input)>>
             /\ api_calls' = api_calls + 1
             /\ messages' = append(append(messages, <<"user", user_input>>),
                                   <<"assistant", answer>>)
             /\ log' = w.file
             /\ log_errors' = IF io = "ok" THEN log_errors ELSE log_errors + 1
             /\ raised' = w.raised
             /\ IF w.raised = "none"
                THEN /\ threads' = IF tts_enabled
                                   THEN speak(speaker_ok, answer, threads)
                                   ELSE threads
                     /\ pc' = "mono"
                ELSE /\ threads' = threads
                     /\ pc' = "idle"
    /\ UNCHANGED <<widgets, session, mvars>>

\* line 168 with the flag off: the handler is skipped and the run ends
MonoSkip ==
    /\ pc = "mono"
    /\ ~mono_guard(monologue_running)
    /\ pc' = "idle"
    /\ UNCHANGED <<messages, log, log_errors, threads, request, api_calls,
                   raised, widgets, session, mvars>>

\* line 172: the generation call fails and the exception ends the run
MonoApiError ==
    /\ pc = "mono"
    /\ mono_guard(monologue_running)
    /\ request' = <<generate_content(prompt)>>
    /\ api_calls' = api_calls + 1
    /\ raised' = "ApiError"
    /\ pc' = "idle"
    /\ UNCHANGED <<messages, log, log_errors, threads, widgets, session, mvars>>

\* lines 168-180 with a generation call that returns text
MonoOk ==
    /\ pc = "mono"
    /\ mono_guard(monologue_running)
    /\ \E text \in ResponseTexts, io \in IoAfter(log_errors) :
         LET answer == mono_answer(mirror_mode, ask_gemini(text))
             w == write_log(log, mono_record(answer), io)
         IN  /\ request' = <<generate_content(prompt)>>
             /\ api_calls' = api_calls + 1
             /\ messages' = append(messages, <<"assistant", answer>>)
             /\ log' = w.file
             /\ log_errors' = IF io = "ok" THEN log_errors ELSE log_errors + 1
             /\ raised' = w.raised
             /\ threads' = IF w.raised = "none" /\ tts_enabled
                           THEN speak(speaker_ok, answer, threads)
                           ELSE threads
    /\ pc' = "idle"
    /\ UNCHANGED <<widgets, session, mvars>>

\* a playback thread runs engine.say and engine.runAndWait to the end
ThreadRun ==
    /\ \E i \in 1..Len(threads) :
         threads' = SubSeq(threads, 1, i - 1) \o SubSeq(threads, i + 1, Len(threads))
    /\ UNCHANGED <<messages, log, log_errors, request, api_calls, raised, pc,
                   widgets, session, mvars>>

Next ==
    \/ PageLoad
    \/ SubmitText
    \/ SetMaxTokens
    \/ SetTemperature
    \/ SetTopK
    \/ SetTopP
    \/ SetRepeatPenalty
    \/ ToggleTts
    \/ ToggleMirror
    \/ PressStart
    \/ PressStop
    \/ UserInputSkip
    \/ UserInputApiError
    \/ UserInputIndexError
    \/ UserInputOk
    \/ MonoSkip
    \/ MonoApiError
    \/ MonoOk
    \/ ThreadRun

Spec == Init /\ [][Next]_vars

-----------------------------------------------------------------------------
(* A session in which the user has ticked the speech checkbox: the state of  *)
(* Spec after PageLoad and ToggleTts and the two skipped handlers of each,   *)
(* with the count of interactions starting from there.                       *)

InitSpeech ==
    /\ messages = <<>>
    /\ monologue_running = FALSE
    /\ logger = 1
    /\ log = <<>>
    /\ log_errors = 0
    /\ max_tokens = max_tokens_default
    /\ temperature = temperature_default
    /\ top_k = top_k_default
    /\ top_p = top_p_default
    /\ repeat_penalty = repeat_penalty_default
    /\ tts_enabled = TRUE
    /\ mirror_mode = FALSE
    /\ user_input = <<>>
    /\ event = "tts"
    /\ engine \in BOOLEAN
    /\ speaker_ok = engine
    /\ threads = <<>>
    /\ request = <<>>
    /\ api_calls = 0
    /\ raised = "none"
    /\ pc = "idle"
    /\ runs = 0
    /\ m_subject = <<>>
    /\ m_original = <<>>
    /\ m_result = <<>>
    /\ m_done = FALSE

NextSpeech ==
    \/ SubmitText
    \/ SetMaxTokens
    \/ SetTemperature
    \/ SetTopK
    \/ SetTopP
    \/ SetRepeatPenalty
    \/ ToggleTts
    \/ ToggleMirror
    \/ PressStart
    \/ PressStop
    \/ UserInputSkip
    \/ UserInputApiError
    \/ UserInputIndexError
    \/ UserInputOk
    \/ MonoSkip
    \/ MonoApiError
    \/ MonoOk
    \/ ThreadRun

SpecSpeech == InitSpeech /\ [][NextSpeech]_vars

-----------------------------------------------------------------------------
(* mirror_response called on its own *)

MirrorSubjects == mirror_keys \cup StringsUpTo({"mul", "x"}, MaxSubjLen)

MirrorOriginals == StringsUpTo({"x", " ", "\n"}, MaxOrigLen)

InitMirror ==
    /\ InitSession
    /\ m_subject \in MirrorSubjects
    /\ m_original \in MirrorOriginals
    /\ m_result = <<>>
    /\ m_done = FALSE

MirrorCall ==
    /\ ~m_done
    /\ m_result' = mirror_response(m_subject, m_original)
    /\ m_done' = TRUE
    /\ UNCHANGED <<m_subject, m_original, messages, log, log_errors, threads,
                   request, api_calls, raised, pc, widgets, session>>

NextMirror == MirrorCall

SpecMirror == InitMirror /\ [][NextMirror]_vars

-----------------------------------------------------------------------------
(* Properties *)

Last(seq) == seq[Len(seq)]

IsPrefix(a, b) == Len(a) <= Len(b) /\ SubSeq(b, 1, Len(a)) = a

Contains(s, t) ==
    \E i \in 0..(Len(s) - Len(t)) : SubSeq(s, i + 1, i + Len(t)) = t

\* the first white-space-delimited token of a text, <<>> if it has none
FirstToken(s) == LET t == lstrip(s) IN SubSeq(t, 1, WordLen(t))

\* the text written for a user turn and for a soliloquy turn
UserBlock(u, a) == <<"USER:", " ">> \o u \o <<"\n", "ASSISTANT:", " ">> \o a \o <<"\n">>
MonoBlock(a) == <<"ASSISTANT(MONO):", " ">> \o a \o <<"\n">>

\* the log a history stands for: one record per turn, in order
RECURSIVE LogOf(_)
LogOf(m) ==
    IF m = <<>> THEN <<>>
    ELSE IF m[1][1] = "user"
         THEN IF Len(m) >= 2 /\ m[2][1] = "assistant"
              THEN <<UserBlock(m[1][2], m[2][2])>> \o LogOf(SubSeq(m, 3, Len(m)))
              ELSE <<<<"user message without its answer">>>>
         ELSE <<MonoBlock(m[1][2])>> \o LogOf(Tail(m))

\* the values ask_gemini can return
Answers == {strip(t) : t \in ResponseTexts}

\* C1: as long as no log write has failed, the log holds exactly one record
\* per turn of the history, in the order of the turns: a USER/ASSISTANT record
\* for a user turn, an ASSISTANT(MONO) record for a soliloquy message.  Every
\* handler appends to both in one step, so this holds after every event.
C1_LogFollowsHistory == log_errors = 0 => log = LogOf(messages)

\* a user turn and a soliloquy turn have been appended and logged
C1_Witness ==
    /\ pc = "idle"
    /\ log_errors = 0
    /\ Len(messages) = 3
    /\ messages[1][1] = "user"
    /\ Len(log) = 2

\* C2: the session starts Idle; a press of "start" leaves the flag on, from
\* Idle and from SoliloquyActive alike; a press of "stop" leaves it off.
C2_StartStop ==
    /\ ~monologue_running
    /\ [][/\ PressStart => monologue_running'
          /\ PressStop => ~monologue_running']_vars

\* "start" pressed while the soliloquy was already active (it had produced a
\* message in the run before)
C2_Witness ==
    /\ event = "start"
    /\ pc = "input"
    /\ runs = 2
    /\ messages # <<>>
    /\ messages[1][1] = "assistant"
    /\ monologue_running

\* a step of the user input handler for an input with a token, in which the
\* generation call returned text
UserTurn ==
    /\ pc = "input"
    /\ strip(user_input) # <<>>
    /\ api_calls' = api_calls + 1
    /\ raised' # "ApiError"

\* the answer of a user turn for the text r returned by the generation call
UserTurnAnswer(r) ==
    IF mirror_mode THEN mirror_response(FirstToken(strip(user_input)), r) ELSE r

\* C3 as stated: a user submission with a non-empty trimmed input and a
\* successful generation call returning r appends (user, raw input) and then
\* (assistant, a), a being transform(first token, r) under mirror mode and r
\* otherwise, and the log gains exactly the record USER: input / ASSISTANT: a.
C3_AsStated ==
    [][UserTurn =>
        \E r \in Answers :
            /\ messages' = messages \o <<<<"user", user_input>>,
                                         <<"assistant", UserTurnAnswer(r)>>>>
            /\ log' = Append(log, UserBlock(user_input, UserTurnAnswer(r)))]_vars

\* C3 amended: history grows as stated; the log gains exactly that record
\* when write_log meets no I/O failure, and when it meets one the failure is
\* swallowed and the log gains that record or nothing.
C3_UserTurn ==
    [][UserTurn =>
        \E r \in Answers :
            /\ messages' = messages \o <<<<"user", user_input>>,
                                         <<"assistant", UserTurnAnswer(r)>>>>
            /\ IF log_errors' = log_errors
               THEN log' = Append(log, UserBlock(user_input, UserTurnAnswer(r)))
               ELSE log' \in {log, Append(log, UserBlock(user_input, UserTurnAnswer(r)))}]_vars

\* a submission under mirror mode whose first token is a key of the table,
\* behind white space and followed by another word, has been handled
C3_Witness ==
    /\ pc = "mono"
    /\ mirror_mode
    /\ user_input = <<" ", "mul", " ", "x">>
    /\ Len(messages) = 2
    /\ messages[1] = <<"user", user_input>>
    /\ messages[2][2] = mirror_response(mul, <<"y">>)
    /\ Len(log) = 1

\* a step of the soliloquy handler in which the generation call returned text
MonoTurn ==
    /\ pc = "mono"
    /\ monologue_running
    /\ api_calls' = api_calls + 1
    /\ raised' # "ApiError"

\* the soliloquy message for the text r returned by the generation call
MonoTurnAnswer(r) ==
    IF mirror_mode THEN mirror_response(honjatmal, r) ELSE r

\* C4 as stated: a render that runs the soliloquy step while SoliloquyActive,
\* the generation call returning r, appends exactly one assistant message, r
\* or transform("honjatmal", r) under mirror mode, appends no user message,
\* and writes exactly the record ASSISTANT(MONO): message.
C4_AsStated ==
    [][MonoTurn =>
        \E r \in Answers :
            /\ messages' = Append(messages, <<"assistant", MonoTurnAnswer(r)>>)
            /\ request'[1].prompt = prompt
            /\ log' = Append(log, MonoBlock(MonoTurnAnswer(r)))]_vars

\* C4 amended: history grows as stated; the log gains exactly that record
\* when write_log meets no I/O failure, and when it meets one the failure is
\* swallowed and the log gains that record or nothing.
C4_MonoTurn ==
    [][MonoTurn =>
        \E r \in Answers :
            /\ messages' = Append(messages, <<"assistant", MonoTurnAnswer(r)>>)
            /\ request'[1].prompt = prompt
            /\ IF log_errors' = log_errors
               THEN log' = Append(log, MonoBlock(MonoTurnAnswer(r)))
               ELSE log' \in {log, Append(log, MonoBlock(MonoTurnAnswer(r)))}]_vars

\* a soliloquy message produced under mirror mode, and logged
C4_Witness ==
    /\ pc = "idle"
    /\ monologue_running
    /\ mirror_mode
    /\ messages = <<<<"assistant", mirror_response(honjatmal, <<"y">>)>>>>
    /\ log = <<MonoBlock(mirror_response(honjatmal, <<"y">>))>>

\* C5: write_log never raises: a step in which a write or a flush of the log
\* fails raises nothing, appends the messages of the turn, and leaves the run
\* where a step without the failure leaves it; no run ever ends with an I/O
\* exception.
C5_LogFailureSwallowed ==
    [][/\ raised' \in {"none", "ApiError", "IndexError"}
       /\ log_errors' # log_errors =>
            /\ raised' = "none"
            /\ \/ /\ pc = "input"
                  /\ pc' = "mono"
                  /\ Len(messages') = Len(messages) + 2
                  /\ messages'[Len(messages) + 1] = <<"user", user_input>>
                  /\ messages'[Len(messages) + 2][1] = "assistant"
               \/ /\ pc = "mono"
                  /\ pc' = "idle"
                  /\ Len(messages') = Len(messages) + 1
                  /\ Last(messages')[1] = "assistant"]_vars

\* the write of a user turn failed: the turn is in the history, not in the
\* log, and the run goes on
C5_Witness ==
    /\ log_errors = 1
    /\ log = <<>>
    /\ Len(messages) = 2
    /\ raised = "none"
    /\ pc = "mono"

\* C6: every generation call, of a user turn or of a soliloquy, hands the API
\* max_output_tokens, temperature and top_p equal to the widget values of
\* that run and, apart from the prompt, nothing else: no top_k and no
\* repetition_penalty.
C6_RequestOptions ==
    [][api_calls' # api_calls =>
        /\ Len(request') = 1
        /\ DOMAIN request'[1] = {"prompt", "max_output_tokens", "temperature", "top_p"}
        /\ request'[1].max_output_tokens = max_tokens
        /\ request'[1].temperature = temperature
        /\ request'[1].top_p = top_p]_vars

\* a call made with max_tokens at its upper bound
C6_Witness ==
    /\ request # <<>>
    /\ max_tokens = max_tokens_max
    /\ request[1].max_output_tokens = max_tokens_max

\* the fallback form: the subject between the fixed words, then a blank line,
\* then the text
FallbackForm(subject, text) ==
    <<"geoulsang:", " ", "(juje", " ", "'">> \o subject
        \o <<"'", " ", "jeongui", " ", "eopseum)", "\n", "\n">> \o text

\* C7 as stated: for a subject of the mirror table the result contains the
\* literal original text, the contrastive sentence about the subject and the
\* conclusion of the table; for any other subject it is the fallback form
\* with the subject and the unmodified original text.
C7_AsStated ==
    m_done =>
        IF m_subject \in mirror_keys
        THEN /\ Contains(m_result, m_original)
             /\ Contains(m_result, contrast(m_subject))
             /\ Contains(m_result, mirror_hierarchy[m_subject])
        ELSE m_result = FallbackForm(m_subject, m_original)

\* C7 amended: for a subject of the table the result contains the original
\* text with its leading and trailing white space removed, on the line that
\* names the original, then the contrastive sentence about the subject, and
\* it ends with the conclusion of the table; for any other subject it is the
\* fallback form with the subject and the unmodified original text.
C7_MirrorResponse ==
    m_done =>
        IF m_subject \in mirror_keys
        THEN /\ Contains(m_result, <<"wonmun:", " ">> \o strip(m_original) \o <<"\n">>)
             /\ Contains(m_result, <<"daejo:", " ">> \o contrast(m_subject) \o <<"\n">>)
             /\ Contains(m_result, <<"jonghap:", " ">> \o mirror_hierarchy[m_subject])
             /\ IsPrefix(<<"geoulsang", " ", "(">> \o m_subject, m_result)
        ELSE m_result = FallbackForm(m_subject, m_original)

\* mirror_response has returned for a subject of the table and an original
\* text that ends in white space
C7_Witness ==
    /\ m_done
    /\ m_subject = baram
    /\ m_original = <<"x", " ">>
    /\ m_result # <<>>

\* C8: a handler that produced an assistant text starts a playback thread for
\* that text exactly when the speech checkbox is on, speaker.ok is true and
\* the text is not blank; otherwise it starts none and fails in nothing.  No
\* other step starts a thread, and the handler goes on to the next part of
\* the run in the same step, whatever threads are alive.
C8_Speak ==
    [][/\ Len(threads') > Len(threads) =>
            /\ Len(messages') > Len(messages)
            /\ threads' = Append(threads, Last(messages')[2])
       /\ Len(messages') > Len(messages) =>
            /\ Len(threads') > Len(threads)
                 <=> (tts_enabled /\ speaker_ok /\ strip(Last(messages')[2]) # <<>>)
            /\ Len(threads') <= Len(threads) => threads' = threads
            /\ raised' = "none"
            /\ pc' = IF pc = "input" THEN "mono" ELSE "idle"]_vars

\* the run has ended while the playback thread it started is still alive
C8_Witness ==
    /\ pc = "idle"
    /\ tts_enabled
    /\ speaker_ok
    /\ threads # <<>>
    /\ threads[1] = Last(messages)[2]

\* C9: every step leaves the history as it was or extends it at its end.
C9_AppendOnly == [][IsPrefix(messages, messages')]_vars

\* two events have each appended to the history
C9_Witness ==
    /\ pc = "idle"
    /\ runs = 2
    /\ Len(messages) >= 4

\* C10: a press of "stop" leaves the flag off before the soliloquy step of
\* that run; and in a run whose flag is off no generation call carries the
\* soliloquy prompt and the soliloquy step changes neither history nor log.
C10_StopPreventsSoliloquy ==
    [][/\ PressStop => ~monologue_running'
       /\ (pc # "idle" /\ ~monologue_running) =>
            /\ api_calls' # api_calls => request'[1].prompt # prompt
            /\ pc = "mono" => (messages' = messages /\ log' = log
                                /\ api_calls' = api_calls)]_vars

\* the run that handled "stop" has ended, after a run that had produced a
\* soliloquy message, without producing another
C10_Witness ==
    /\ event = "stop"
    /\ pc = "idle"
    /\ raised = "none"
    /\ ~monologue_running
    /\ Len(messages) = 1
    /\ messages[1][1] = "assistant"
    /\ api_calls = 1

\* C11: the user input handler, reached with a text field that is empty or
\* holds white space only, leaves the run to go on without an exception,
\* makes no generation call, appends no message and writes no log record.
C11_BlankInputIgnored ==
    [][(pc = "input" /\ pc' # pc /\ strip(user_input) = <<>>) =>
        /\ pc' = "mono"
        /\ raised' = "none"
        /\ api_calls' = api_calls
        /\ messages' = messages
        /\ log' = log]_vars

\* C12: a handler step in which the generation call fails leaves history, log and
\* playback threads as they were and does not touch the soliloquy flag; the
\* run ends there, so a failed user turn leaves no user message and a failed
\* soliloquy cycle no soliloquy message; log and history agree afterwards
\* whenever they agreed before.
C12_ApiErrorNoEffect ==
    [][(pc # "idle" /\ raised' = "ApiError") =>
        /\ api_calls' = api_calls + 1
        /\ messages' = messages
        /\ log' = log
        /\ log_errors' = log_errors
        /\ threads' = threads
        /\ monologue_running' = monologue_running
        /\ pc' = "idle"
        /\ (log = LogOf(messages)) => (log' = LogOf(messages'))]_vars

\* the generation call of a user submission failed in a session whose
\* soliloquy is active and had produced one message: history and log still
\* hold that message alone and the flag is still on
C12_Witness ==
    /\ raised = "ApiError"
    /\ event = "text"
    /\ pc = "idle"
    /\ monologue_running
    /\ request[1].prompt = user_input
    /\ Len(messages) = 1
    /\ log = LogOf(messages)

\* C13: in a run triggered by anything but a change of the text field (a
\* button, a checkbox, an option) while the field still holds a text that
\* history already records as a user message, the user input handler makes
\* no generation call and appends neither messages nor a log record; so
\* history holds one user message per text submission.
C13_SubmissionHandledOnce ==
    [][(/\ pc = "input"
        /\ pc' # pc
        /\ event # "text"
        /\ \E i \in 1..Len(messages) : messages[i] = <<"user", user_input>>) =>
        /\ api_calls' = api_calls
        /\ messages' = messages
        /\ log' = log]_vars

\* a text produced by mirror_response
IsMirrored(text) == text # <<>> /\ text[1] \in {"geoulsang", "geoulsang:"}

\* C14: every generation call carries the option values the widgets hold in
\* the run that makes it, and every assistant message is mirrored exactly
\* when the mirror checkbox is on in that run and spoken only when the speech
\* checkbox is on in that run, whatever the values were in earlier runs.
C14_OptionsReadFresh ==
    [][/\ api_calls' # api_calls =>
            /\ request'[1].max_output_tokens = max_tokens
            /\ request'[1].temperature = temperature
            /\ request'[1].top_p = top_p
       /\ Len(messages') > Len(messages) =>
            /\ IsMirrored(Last(messages')[2]) <=> mirror_mode
            /\ Len(threads') > Len(threads) => tts_enabled]_vars

\* the soliloquy was started with the default temperature and produced a
\* message; the temperature was then raised to its maximum, and the
\* soliloquy call of that run carried the new value
C14_Witness ==
    /\ pc = "idle"
    /\ event = "temperature"
    /\ monologue_running
    /\ Len(messages) = 2
    /\ request[1].prompt = prompt
    /\ request[1].temperature = temperature_max

\* the state from which SpecSpeech starts, as Spec reaches it
SpeechTicked ==
    /\ pc = "idle"
    /\ event = "tts"
    /\ tts_enabled
    /\ runs = 1
    /\ logger = 1
    /\ speaker_ok = engine
    /\ messages = <<>>
    /\ log = <<>>
    /\ threads = <<>>
    /\ request = <<>>
    /\ user_input = <<>>
    /\ ~monologue_running
    /\ ~mirror_mode
    /\ raised = "none"

\* C15: no event and no handler waits for, joins or cancels a playback
\* thread: each of them leaves the threads alive as they are, and a handler
\* that has a text to speak adds its thread behind them however many are
\* alive; so two threads can be alive, both using the engine, at once.
C15_NoSerialisation ==
    [][/\ pc' # pc => IsPrefix(threads, threads')
       /\ (/\ Len(messages') > Len(messages)
           /\ tts_enabled
           /\ speaker_ok
           /\ strip(Last(messages')[2]) # <<>>) =>
            threads' = Append(threads, Last(messages')[2])]_vars

\* two events have each started a playback thread and both threads are alive
C15_Witness ==
    /\ pc = "idle"
    /\ runs = 2
    /\ speaker_ok
    /\ Len(threads) = 2
    /\ threads[2] = Last(messages)[2]

\* C16: the soliloquy flag changes only in the step of a press of "start" or
\* of "stop": the handlers, with or without a failed log write, the other
\* widgets and the playback threads leave it as it is.
C16_OnlyButtonsChangeFlag ==
    [][monologue_running' # monologue_running => (PressStart \/ PressStop)]_vars

\* the soliloquy, started one interaction earlier, is still active after a
\* run that handled a text submission and a soliloquy cycle and met a failed
\* log write
C16_Witness ==
    /\ pc = "idle"
    /\ event = "text"
    /\ runs = 2
    /\ monologue_running
    /\ log_errors = 1
    /\ Len(messages) = 4

\* C17: a session opens its log file in its first run and never again, and
\* every later run writes to that file: the number of files opened goes from
\* 0 to 1 in PageLoad and stays, every record is written with the file open,
\* and the content of the file is only ever extended at its end.
C17_OneLogFile ==
    /\ [][/\ logger' # logger => (PageLoad /\ logger = 0 /\ logger' = 1)
          /\ log' # log => logger = 1
          /\ IsPrefix(log, log')]_vars
    /\ [](logger = 0 => (pc = "idle" /\ log = <<>> /\ messages = <<>>))

\* two runs after the first have each written a record to the one file
C17_Witness ==
    /\ pc = "idle"
    /\ logger = 1
    /\ runs = 2
    /\ log_errors = 0
    /\ Len(log) = 2
    /\ Len(messages) = 4

====
